---- MODULE Spec2Model ----
(***************************************************************************)
(* Model of get_char.cpp: main() drives FreeType through init, face open,  *)
(* glyph lookup, glyph load and outline decomposition; the four callbacks  *)
(* MoveToFunc, LineToFunc, ConicToFunc and CubicToFunc accumulate a        *)
(* GlyphPath, which PrintGlyphPath renders to standard output.             *)
(***************************************************************************)
EXTENDS Integers, Sequences, FiniteSets, TLC

VARIABLES
    pc,          \* position of main(): the next stage to run
    argc,        \* argument count main() was started with
    engine,      \* behaviour of the outline walker: "conforming" or "unchecked"
    library,     \* FT_Library handle: "none", "open" or "done"
    face,        \* FT_Face handle: "none", "open" or "done"
    glyph_index, \* result of FT_Get_Char_Index
    format,      \* face->glyph->format after FT_Load_Glyph
    constructed, \* TRUE once the local GlyphPath glyph_path exists
    glyph_path,  \* the accumulator: a sequence of contours
    events,      \* the callbacks the walker has delivered so far, in order
    ret,         \* value returned by the last callback
    ub,          \* TRUE once back() was called on an empty GlyphPath
    out,         \* lines written to std::cout
    err,         \* diagnostics written to std::cerr
    calls,       \* FreeType entry points called so far, in order
    results,     \* FT_Error each stage's call returned, NotRun before the call
    exit_code    \* value returned by main(), NoExit while running

vars == <<pc, argc, engine, library, face, glyph_index, format, constructed,
          glyph_path, events, ret, ub, out, err, calls, results, exit_code>>

\* ---- bounds -------------------------------------------------------------
MaxEvents == 4
MaxArgc == 4
MaxGlyphIndex == 1

\* ---- values -------------------------------------------------------------
NoExit == -1
NotRun == -1
Stages == {"init", "new_face", "load_glyph", "decompose"}
SigSegv == 139
FT_Err_Ok == 0
FT_Err_Cannot_Open_Resource == 1
FT_Err_Unknown_File_Format == 2
ErrorCodes == {FT_Err_Ok, FT_Err_Cannot_Open_Resource, FT_Err_Unknown_File_Format}
Formats == {"outline", "bitmap"}

\* coordinates the walker may hand to a callback (FT_Vector values)
Points == { <<0, 0>>, <<100, -7>> }

\* struct VectorPoint
VectorPoint(p) == [x |-> p[1], y |-> p[2]]

\* struct PathSegment
PathSegment(t, to, control) == [type |-> t, to |-> to, control |-> control]

\* variant: the last contour is overwritten by the new segment
PushBackLastOverwrite(path, seg) ==
    [path EXCEPT ![Len(path)] = << seg >>]

\* vector::back() on a non-empty GlyphPath, followed by push_back on it
PushBackLast(path, seg) ==
    [path EXCEPT ![Len(path)] = Append(path[Len(path)], seg)]

\* ---- callbacks: the new value of *user ---------------------------------
\* variant: the new contour is opened but its MOVE_TO segment is not stored
MoveToPathNoSegment(path, to) == Append(path, << >>)

\* variant: the control field of the MOVE_TO segment is filled with the point
MoveToPathControlCopied(path, to) ==
    Append(path, << PathSegment("MOVE_TO", VectorPoint(to), VectorPoint(to)) >>)

MoveToPath(path, to) ==
    Append(path, << PathSegment("MOVE_TO", VectorPoint(to), VectorPoint(<<0, 0>>)) >>)

\* variant: the segment goes to path->front() instead of path->back()
LineToPathFront(path, to) ==
    [path EXCEPT ![1] = Append(path[1],
        PathSegment("LINE_TO", VectorPoint(to), VectorPoint(<<0, 0>>)))]

LineToPath(path, to) ==
    PushBackLast(path, PathSegment("LINE_TO", VectorPoint(to), VectorPoint(<<0, 0>>)))

\* variant: the control point and the end point are stored in each other's field
ConicToPathSwapped(path, control, to) ==
    PushBackLast(path, PathSegment("CONIC_TO", VectorPoint(control), VectorPoint(to)))

ConicToPath(path, control, to) ==
    PushBackLast(path, PathSegment("CONIC_TO", VectorPoint(to), VectorPoint(control)))

\* variant: the cubic arc is stored as a contour of its own
CubicToPathStored(path, control1, control2, to) ==
    Append(path, << PathSegment("LINE_TO", VectorPoint(to), VectorPoint(control1)) >>)

CubicToPath(path, control1, control2, to) == path

\* return values of the callbacks
MoveToRet == 0
LineToRet == 0
ConicToRet == 0
CubicToRet == 0

\* ---- PrintGlyphPath -----------------------------------------------------
RECURSIVE Spaces(_)
Spaces(n) == IF n <= 0 THEN "" ELSE " " \o Spaces(n - 1)

\* std::right << std::setw(w) << n : pad on the left, never truncate
SetW(w, n) == LET s == ToString(n) IN Spaces(w - Len(s)) \o s

\* variant: the LINE_TO case prints the control point like the CONIC_TO case
SegmentLineWithControl(segment) ==
    CASE segment.type = "MOVE_TO" ->
            "      MoveTo (" \o SetW(5, segment.to.x) \o ", "
                             \o SetW(5, segment.to.y) \o ")"
      [] segment.type = "LINE_TO" ->
            "      LineTo (" \o SetW(5, segment.control.x) \o ", "
                             \o SetW(5, segment.control.y) \o ") ("
                             \o SetW(5, segment.to.x) \o ", "
                             \o SetW(5, segment.to.y) \o ")"
      [] segment.type = "CONIC_TO" ->
            "      QuadTo (" \o SetW(5, segment.control.x) \o ", "
                             \o SetW(5, segment.control.y) \o ") ("
                             \o SetW(5, segment.to.x) \o ", "
                             \o SetW(5, segment.to.y) \o ")"

SegmentLine(segment) ==
    CASE segment.type = "MOVE_TO" ->
            "      MoveTo (" \o SetW(5, segment.to.x) \o ", "
                             \o SetW(5, segment.to.y) \o ")"
      [] segment.type = "LINE_TO" ->
            "      LineTo (" \o SetW(5, segment.to.x) \o ", "
                             \o SetW(5, segment.to.y) \o ")"
      [] segment.type = "CONIC_TO" ->
            "      QuadTo (" \o SetW(5, segment.control.x) \o ", "
                             \o SetW(5, segment.control.y) \o ") ("
                             \o SetW(5, segment.to.x) \o ", "
                             \o SetW(5, segment.to.y) \o ")"

\* variant: the contour header prints the 0-based loop index
ContourLinesZeroBased(path, i) ==
    << "   Contour #" \o SetW(2, i - 1) >>
        \o [j \in 1..Len(path[i]) |-> SegmentLine(path[i][j])]

ContourLines(path, i) ==
    << "   Contour #" \o SetW(2, i) >>
        \o [j \in 1..Len(path[i]) |-> SegmentLine(path[i][j])]

RECURSIVE ContoursFrom(_, _)
ContoursFrom(path, i) ==
    IF i > Len(path) THEN << >>
    ELSE ContourLines(path, i) \o ContoursFrom(path, i + 1)

PrintGlyphPath(path) == << "// Extracted Glyph Path:" >> \o ContoursFrom(path, 1)

SuccessHeader == "// Successfully extracted vector data"

\* ---- main ---------------------------------------------------------------
Init ==
    /\ pc = "start"
    /\ argc \in 1..MaxArgc
    /\ engine = "conforming"
    /\ library = "none"
    /\ face = "none"
    /\ glyph_index = 0
    /\ format = "none"
    /\ constructed = FALSE
    /\ glyph_path = << >>
    /\ events = << >>
    /\ ret = 0
    /\ ub = FALSE
    /\ out = << >>
    /\ err = << >>
    /\ calls = << >>
    /\ results = [s \in Stages |-> NotRun]
    /\ exit_code = NoExit

\* the same program against a walker that may deliver callbacks in any order
InitUnchecked ==
    /\ pc = "start"
    /\ argc \in 1..MaxArgc
    /\ engine \in {"conforming", "unchecked"}
    /\ library = "none"
    /\ face = "none"
    /\ glyph_index = 0
    /\ format = "none"
    /\ constructed = FALSE
    /\ glyph_path = << >>
    /\ events = << >>
    /\ ret = 0
    /\ ub = FALSE
    /\ out = << >>
    /\ err = << >>
    /\ calls = << >>
    /\ results = [s \in Stages |-> NotRun]
    /\ exit_code = NoExit

\* variant: the failure path returns 0
ReturnErrorZero(msg) ==
    /\ err' = Append(err, msg)
    /\ exit_code' = 0
    /\ pc' = "done"

\* variant: the failure path returns 1 without a diagnostic
ReturnErrorSilent(msg) ==
    /\ err' = err
    /\ exit_code' = 1
    /\ pc' = "done"

\* std::cerr << ... ; return 1;   (no handle acquired yet)
ReturnError(msg) ==
    /\ err' = Append(err, msg)
    /\ exit_code' = 1
    /\ pc' = "done"

\* lines 98-101
CheckArgs ==
    /\ pc = "start"
    /\ IF argc # 3
       THEN /\ ReturnError("Usage")
       ELSE /\ pc' = "init"
            /\ UNCHANGED <<err, exit_code>>
    /\ UNCHANGED <<argc, engine, library, face, glyph_index, format, constructed,
                   glyph_path, events, ret, ub, out, calls, results>>

\* lines 106-111
InitFreeType ==
    /\ pc = "init"
    /\ \E error \in ErrorCodes :
          /\ results' = [results EXCEPT !["init"] = error]
          /\ calls' = Append(calls, "FT_Init_FreeType")
          /\ IF error # FT_Err_Ok
             THEN /\ ReturnError("InitFreeType")
                  /\ UNCHANGED library
             ELSE /\ library' = "open"
                  /\ pc' = "new_face"
                  /\ UNCHANGED <<err, exit_code>>
    /\ UNCHANGED <<argc, engine, face, glyph_index, format, constructed,
                   glyph_path, events, ret, ub, out>>

\* variant: the FT_New_Face failure paths also release the face
NewFaceReleasesFace ==
    /\ pc = "new_face"
    /\ \E error \in ErrorCodes :
          /\ results' = [results EXCEPT !["new_face"] = error]
          /\ IF error = FT_Err_Unknown_File_Format
             THEN /\ ReturnError("UnknownFileFormat")
                  /\ calls' = calls \o << "FT_New_Face", "FT_Done_Face", "FT_Done_FreeType" >>
                  /\ face' = "done"
                  /\ library' = "done"
             ELSE IF error # FT_Err_Ok
             THEN /\ ReturnError("OpenFont")
                  /\ calls' = calls \o << "FT_New_Face", "FT_Done_Face", "FT_Done_FreeType" >>
                  /\ face' = "done"
                  /\ library' = "done"
             ELSE /\ face' = "open"
                  /\ calls' = Append(calls, "FT_New_Face")
                  /\ pc' = "char_index"
                  /\ UNCHANGED <<err, exit_code, library>>
    /\ UNCHANGED <<argc, engine, glyph_index, format, constructed,
                   glyph_path, events, ret, ub, out>>

\* lines 113-123
NewFace ==
    /\ pc = "new_face"
    /\ \E error \in ErrorCodes :
          /\ results' = [results EXCEPT !["new_face"] = error]
          /\ IF error = FT_Err_Unknown_File_Format
             THEN /\ ReturnError("UnknownFileFormat")
                  /\ calls' = calls \o << "FT_New_Face", "FT_Done_FreeType" >>
                  /\ library' = "done"
                  /\ UNCHANGED face
             ELSE IF error # FT_Err_Ok
             THEN /\ ReturnError("OpenFont")
                  /\ calls' = calls \o << "FT_New_Face", "FT_Done_FreeType" >>
                  /\ library' = "done"
                  /\ UNCHANGED face
             ELSE /\ face' = "open"
                  /\ calls' = Append(calls, "FT_New_Face")
                  /\ pc' = "char_index"
                  /\ UNCHANGED <<err, exit_code, library>>
    /\ UNCHANGED <<argc, engine, glyph_index, format, constructed,
                   glyph_path, events, ret, ub, out>>

\* variant: the library is torn down before the face
CleanupLibraryFirst(done) ==
    /\ calls' = calls \o done \o << "FT_Done_FreeType", "FT_Done_Face" >>
    /\ face' = "done"
    /\ library' = "done"

\* FT_Done_Face( face ); FT_Done_FreeType( library );
Cleanup(done) ==
    /\ calls' = calls \o done \o << "FT_Done_Face", "FT_Done_FreeType" >>
    /\ face' = "done"
    /\ library' = "done"

\* variant: the glyph index is not tested
GetCharIndexUnchecked ==
    /\ pc = "char_index"
    /\ \E gi \in 0..MaxGlyphIndex :
          /\ glyph_index' = gi
          /\ calls' = Append(calls, "FT_Get_Char_Index")
          /\ pc' = "load_glyph"
          /\ UNCHANGED <<err, exit_code, library, face>>
    /\ UNCHANGED <<argc, engine, format, constructed,
                   glyph_path, events, ret, ub, out, results>>

\* lines 126-132
GetCharIndex ==
    /\ pc = "char_index"
    /\ \E gi \in 0..MaxGlyphIndex :
          /\ glyph_index' = gi
          /\ IF gi = 0
             THEN /\ ReturnError("GlyphNotFound")
                  /\ Cleanup(<< "FT_Get_Char_Index" >>)
             ELSE /\ calls' = Append(calls, "FT_Get_Char_Index")
                  /\ pc' = "load_glyph"
                  /\ UNCHANGED <<err, exit_code, library, face>>
    /\ UNCHANGED <<argc, engine, format, constructed,
                   glyph_path, events, ret, ub, out, results>>

\* lines 138-144
LoadGlyph ==
    /\ pc = "load_glyph"
    /\ \E error \in ErrorCodes, fmt \in Formats :
          /\ results' = [results EXCEPT !["load_glyph"] = error]
          /\ IF error # FT_Err_Ok
             THEN /\ ReturnError("LoadGlyph")
                  /\ Cleanup(<< "FT_Load_Glyph" >>)
                  /\ UNCHANGED format
             ELSE /\ format' = fmt
                  /\ calls' = Append(calls, "FT_Load_Glyph")
                  /\ pc' = "check_format"
                  /\ UNCHANGED <<err, exit_code, library, face>>
    /\ UNCHANGED <<argc, engine, glyph_index, constructed,
                   glyph_path, events, ret, ub, out>>

\* variant: the glyph format is not tested
CheckFormatSkipped ==
    /\ pc = "check_format"
    /\ constructed' = TRUE
    /\ glyph_path' = << >>
    /\ calls' = Append(calls, "FT_Outline_Decompose")
    /\ pc' = "decompose"
    /\ UNCHANGED <<err, exit_code, library, face>>
    /\ UNCHANGED <<argc, engine, glyph_index, format, events, ret, ub, out, results>>

\* lines 146-166: the format check, the callback table, GlyphPath glyph_path
\* and the entry into FT_Outline_Decompose
CheckFormat ==
    /\ pc = "check_format"
    /\ IF format # "outline"
       THEN /\ ReturnError("NotOutline")
            /\ Cleanup(<< >>)
            /\ UNCHANGED <<constructed, glyph_path>>
       ELSE /\ constructed' = TRUE
            /\ glyph_path' = << >>
            /\ calls' = Append(calls, "FT_Outline_Decompose")
            /\ pc' = "decompose"
            /\ UNCHANGED <<err, exit_code, library, face>>
    /\ UNCHANGED <<argc, engine, glyph_index, format, events, ret, ub, out, results>>

\* ---- the walk inside FT_Outline_Decompose -------------------------------
\* the walker has opened a contour (it has emitted a move_to)
Opened == \E i \in DOMAIN events : events[i].kind = "move_to"

Walking ==
    /\ pc = "decompose"
    /\ ret = 0
    /\ Len(events) < MaxEvents

\* an edge event: a conforming walker emits it only inside an open contour
EdgeAllowed == engine = "conforming" => Opened

WalkFrame == UNCHANGED <<argc, engine, library, face, glyph_index, format,
                         constructed, out, err, calls, results>>

\* path->back() on an empty vector is undefined: the process is killed, or
\* the write lands outside the GlyphPath and the callback returns normally
BackOnEmpty(r) ==
    /\ ub' = TRUE
    /\ UNCHANGED glyph_path
    /\ \/ /\ pc' = "done"
          /\ exit_code' = SigSegv
          /\ UNCHANGED ret
       \/ /\ ret' = r
          /\ UNCHANGED <<pc, exit_code>>

\* lines 38-45
MoveToFunc ==
    /\ Walking
    /\ \E to \in Points :
          /\ events' = Append(events, [kind |-> "move_to", to |-> to, control |-> <<0, 0>>])
          /\ glyph_path' = MoveToPath(glyph_path, to)
          /\ ret' = MoveToRet
    /\ UNCHANGED <<pc, exit_code, ub>>
    /\ WalkFrame

\* lines 48-52
LineToFunc ==
    /\ Walking
    /\ EdgeAllowed
    /\ \E to \in Points :
          /\ events' = Append(events, [kind |-> "line_to", to |-> to, control |-> <<0, 0>>])
          /\ IF glyph_path = << >>
             THEN BackOnEmpty(LineToRet)
             ELSE /\ glyph_path' = LineToPath(glyph_path, to)
                  /\ ret' = LineToRet
                  /\ UNCHANGED <<pc, exit_code, ub>>
    /\ WalkFrame

\* lines 55-59
ConicToFunc ==
    /\ Walking
    /\ EdgeAllowed
    /\ \E control \in Points, to \in Points :
          /\ events' = Append(events, [kind |-> "conic_to", to |-> to, control |-> control])
          /\ IF glyph_path = << >>
             THEN BackOnEmpty(ConicToRet)
             ELSE /\ glyph_path' = ConicToPath(glyph_path, control, to)
                  /\ ret' = ConicToRet
                  /\ UNCHANGED <<pc, exit_code, ub>>
    /\ WalkFrame

\* lines 62-64
CubicToFunc ==
    /\ Walking
    /\ EdgeAllowed
    /\ \E control1 \in Points, control2 \in Points, to \in Points :
          /\ events' = Append(events, [kind |-> "cubic_to", to |-> to, control |-> control1])
          /\ glyph_path' = CubicToPath(glyph_path, control1, control2, to)
          /\ ret' = CubicToRet
    /\ UNCHANGED <<pc, exit_code, ub>>
    /\ WalkFrame

\* variant: the path is printed whatever the walk returned
DecomposeOutputAlways(error, path) == << SuccessHeader >> \o PrintGlyphPath(path)

\* lines 167-175: what main() writes to std::cout once the walk has returned
DecomposeOutput(error, path) ==
    IF error # FT_Err_Ok THEN << >>
    ELSE << SuccessHeader >> \o PrintGlyphPath(path)

\* lines 166-181: FT_Outline_Decompose returns; a non-zero callback result
\* is handed back as the error, otherwise the walker reports its own status
DecomposeReturn ==
    /\ pc = "decompose"
    /\ \E error \in ErrorCodes :
          /\ (ret # 0) => (error # FT_Err_Ok)
          /\ results' = [results EXCEPT !["decompose"] = error]
          /\ out' = out \o DecomposeOutput(error, glyph_path)
          /\ IF error # FT_Err_Ok
             THEN /\ ReturnError("Decompose")
                  /\ Cleanup(<< >>)
             ELSE /\ Cleanup(<< >>)
                  /\ exit_code' = 0
                  /\ pc' = "done"
                  /\ UNCHANGED err
    /\ UNCHANGED <<argc, engine, glyph_index, format, constructed,
                   glyph_path, events, ret, ub>>

Next ==
    \/ CheckArgs
    \/ InitFreeType
    \/ NewFace
    \/ GetCharIndex
    \/ LoadGlyph
    \/ CheckFormat
    \/ MoveToFunc
    \/ LineToFunc
    \/ ConicToFunc
    \/ CubicToFunc
    \/ DecomposeReturn

Spec == Init /\ [][Next]_vars

SpecUnchecked == InitUnchecked /\ [][Next]_vars

\* ---- properties ---------------------------------------------------------
\* the delivered callbacks that produce a segment
Delivered == SelectSeq(events, LAMBDA e : e.kind # "cubic_to")

MovePositions == {i \in DOMAIN Delivered : Delivered[i].kind = "move_to"}

\* position in Delivered of the move_to that opens the c-th contour
StartOf(c) ==
    CHOOSE i \in MovePositions : Cardinality({j \in MovePositions : j <= i}) = c

\* position in Delivered of the last event of the c-th contour
EndOf(c) ==
    IF c = Cardinality(MovePositions) THEN Len(Delivered) ELSE StartOf(c + 1) - 1

TypeOfKind(kind) ==
    CASE kind = "move_to" -> "MOVE_TO"
      [] kind = "line_to" -> "LINE_TO"
      [] kind = "conic_to" -> "CONIC_TO"

\* segment seg records exactly what event ev delivered
Mirrors(seg, ev) ==
    /\ seg.type = TypeOfKind(ev.kind)
    /\ seg.to.x = ev.to[1]
    /\ seg.to.y = ev.to[2]
    /\ ev.kind = "conic_to" => (seg.control.x = ev.control[1] /\ seg.control.y = ev.control[2])

\* C1: for a protocol-conforming callback sequence the GlyphPath has one
\* contour per moveTo, the i-th contour has 1 + k_i segments, and contours
\* and segments carry the kinds and coordinates of the callbacks, in order.
C1_MirrorsCallbacks ==
    (engine = "conforming" /\ constructed) =>
        /\ Len(glyph_path) = Cardinality(MovePositions)
        /\ \A c \in 1..Len(glyph_path) :
              /\ Len(glyph_path[c]) = EndOf(c) - StartOf(c) + 1
              /\ \A j \in 1..Len(glyph_path[c]) :
                    Mirrors(glyph_path[c][j], Delivered[StartOf(c) + j - 1])

C1_Witness ==
    /\ pc = "done"
    /\ exit_code = 0
    /\ Len(glyph_path) = 2
    /\ Len(glyph_path[1]) = 2
    /\ Len(glyph_path[2]) = 2
    /\ glyph_path[1][2].type = "LINE_TO"
    /\ glyph_path[2][2].type = "CONIC_TO"
    /\ glyph_path[2][2].to # glyph_path[2][2].control

\* C2: after every callback of a protocol-conforming sequence every contour
\* is non-empty, starts with a MoveTo and holds no MoveTo at a later position.
C2_ContourStartsWithOneMoveTo ==
    engine = "conforming" =>
        \A c \in 1..Len(glyph_path) :
            /\ Len(glyph_path[c]) >= 1
            /\ glyph_path[c][1].type = "MOVE_TO"
            /\ \A j \in 2..Len(glyph_path[c]) : glyph_path[c][j].type # "MOVE_TO"

C2_Witness ==
    /\ pc = "decompose"
    /\ Len(glyph_path) = 2
    /\ Len(glyph_path[1]) = 3
    /\ Len(glyph_path[2]) = 1

LastEvent == events[Len(events)]

\* C3: an edge callback invoked while the accumulator holds no contour fails
\* fast with a structural error and never dereferences the absent contour.
C3_EdgeBeforeMoveFailsFast ==
    (events # << >> /\ LastEvent.kind \in {"line_to", "conic_to"} /\ ~Opened) =>
        (ret # 0 /\ ~ub)

Pos(fn) == CHOOSE i \in DOMAIN calls : calls[i] = fn
Called(fn) == \E i \in DOMAIN calls : calls[i] = fn

\* C4: at every exit each acquired handle has been released, and when both
\* were acquired the face was released before the library.
C4_HandlesReleasedFaceFirst ==
    pc = "done" =>
        /\ results["init"] = FT_Err_Ok => Called("FT_Done_FreeType")
        /\ results["new_face"] = FT_Err_Ok =>
              /\ Called("FT_Done_Face")
              /\ Called("FT_Done_FreeType")
              /\ Pos("FT_Done_Face") < Pos("FT_Done_FreeType")

C4_Witness ==
    /\ pc = "done"
    /\ exit_code = 1
    /\ results["new_face"] = FT_Err_Ok
    /\ calls[Len(calls)] = "FT_Done_FreeType"
    /\ calls[Len(calls) - 1] = "FT_Done_Face"

DecomposeFailed == results["decompose"] \notin {NotRun, FT_Err_Ok}

\* C5: when the walk reports failure after callbacks have populated the
\* accumulator, the run ends with one error and nothing on standard output.
C5_NoPartialPathPrinted ==
    (pc = "done" /\ DecomposeFailed) =>
        /\ out = << >>
        /\ err = << "Decompose" >>
        /\ exit_code = 1

C5_Witness ==
    /\ pc = "done"
    /\ DecomposeFailed
    /\ Len(glyph_path) >= 1
    /\ Len(glyph_path[1]) >= 2
    /\ out = << >>

AllStagesSucceeded ==
    /\ argc = 3
    /\ results["init"] = FT_Err_Ok
    /\ results["new_face"] = FT_Err_Ok
    /\ glyph_index # 0
    /\ results["load_glyph"] = FT_Err_Ok
    /\ format = "outline"
    /\ results["decompose"] = FT_Err_Ok

\* C6: the exit code is 0 exactly when every stage succeeded, 1 when any
\* stage failed, and never anything else.
C6_ExitCode ==
    pc = "done" =>
        /\ exit_code \in {0, 1}
        /\ exit_code = 0 <=> AllStagesSucceeded

C6_Witness ==
    /\ pc = "done"
    /\ exit_code = 0
    /\ AllStagesSucceeded
    /\ Len(glyph_path) >= 1

\* C7: CubicToFunc changes nothing in any accumulator state and for any
\* argument: the GlyphPath is unchanged, it returns 0 and raises no error.
C7_CubicToIsNoOp ==
    [][ (Len(events') = Len(events) + 1 /\ events'[Len(events')].kind = "cubic_to") =>
            /\ glyph_path' = glyph_path
            /\ ret' = 0
            /\ ub' = ub
            /\ pc' = pc
            /\ err' = err
            /\ exit_code' = exit_code ]_vars

C7_Witness ==
    /\ pc = "done"
    /\ exit_code = 0
    /\ \E i \in DOMAIN events : events[i].kind = "cubic_to" /\ i > 1
    /\ Len(events) = 3
    /\ Len(glyph_path) = 1
    /\ Len(glyph_path[1]) = 2

\* C8: when the loaded glyph is not in outline format the program exits
\* with code 1 and the decomposition is never entered, so no callback runs.
C8_NonOutlineNeverDecomposed ==
    format = "bitmap" =>
        /\ pc \in {"check_format", "done"}
        /\ pc = "done" => exit_code = 1
        /\ ~Called("FT_Outline_Decompose")
        /\ events = << >>

C8_Witness ==
    /\ format = "bitmap"
    /\ pc = "done"
    /\ exit_code = 1
    /\ err = << "NotOutline" >>

\* C9: when FT_Get_Char_Index returns 0 the program exits with code 1, no
\* GlyphPath is constructed, FT_Load_Glyph and FT_Outline_Decompose are not
\* called and nothing is written to standard output.
C9_GlyphNotFound ==
    (Called("FT_Get_Char_Index") /\ glyph_index = 0) =>
        /\ pc = "done"
        /\ exit_code = 1
        /\ ~constructed
        /\ ~Called("FT_Load_Glyph")
        /\ ~Called("FT_Outline_Decompose")
        /\ out = << >>

C9_Witness ==
    /\ Called("FT_Get_Char_Index")
    /\ glyph_index = 0
    /\ pc = "done"
    /\ err = << "GlyphNotFound" >>

RECURSIVE Flatten(_)
Flatten(path) == IF path = << >> THEN << >> ELSE Head(path) \o Flatten(Tail(path))

ConicEvents == SelectSeq(events, LAMBDA e : e.kind = "conic_to")
ConicSegments == SelectSeq(Flatten(glyph_path), LAMBDA g : g.type = "CONIC_TO")

\* C10 (amended): every ConicToFunc call stores one CONIC_TO segment whose
\* control point and end point are the ones passed, in call order; the
\* control point may be the zero point.
C10_ControlPointStored ==
    engine = "conforming" =>
        /\ Len(ConicSegments) = Len(ConicEvents)
        /\ \A k \in 1..Len(ConicSegments) :
              /\ ConicSegments[k].control.x = ConicEvents[k].control[1]
              /\ ConicSegments[k].control.y = ConicEvents[k].control[2]
              /\ ConicSegments[k].to.x = ConicEvents[k].to[1]
              /\ ConicSegments[k].to.y = ConicEvents[k].to[2]

C10_Witness ==
    /\ Len(ConicSegments) = 2
    /\ ConicSegments[1].control = [x |-> 100, y |-> -7]
    /\ ConicSegments[1].to = [x |-> 0, y |-> 0]
    /\ ConicSegments[2].control = [x |-> 0, y |-> 0]

\* C10 (as stated): every QuadTo segment carries the control point passed
\* to the callback and that control point is never the zero point.
C10_ControlPointNeverZero ==
    engine = "conforming" =>
        /\ Len(ConicSegments) = Len(ConicEvents)
        /\ \A k \in 1..Len(ConicSegments) :
              /\ ConicSegments[k].control.x = ConicEvents[k].control[1]
              /\ ConicSegments[k].control.y = ConicEvents[k].control[2]
              /\ ConicSegments[k].control # [x |-> 0, y |-> 0]

\* C11: in every reachable accumulator state every MoveTo and LineTo segment
\* has the zero point as its control point, whatever coordinates were passed.
C11_UnusedControlIsZero ==
    \A c \in 1..Len(glyph_path) :
        \A j \in 1..Len(glyph_path[c]) :
            glyph_path[c][j].type \in {"MOVE_TO", "LINE_TO"} =>
                glyph_path[c][j].control = [x |-> 0, y |-> 0]

C11_Witness ==
    /\ Len(glyph_path) = 1
    /\ Len(glyph_path[1]) = 3
    /\ glyph_path[1][1].type = "MOVE_TO"
    /\ glyph_path[1][1].to = [x |-> 100, y |-> -7]
    /\ glyph_path[1][2].type = "CONIC_TO"
    /\ glyph_path[1][3].type = "LINE_TO"
    /\ glyph_path[1][3].to = [x |-> 100, y |-> -7]

\* number of segments in the contours before the c-th
RECURSIVE SegmentsBefore(_, _)
SegmentsBefore(path, c) ==
    IF c <= 1 THEN 0 ELSE SegmentsBefore(path, c - 1) + Len(path[c - 1])

\* path with the control point of every MoveTo/LineTo segment replaced by
\* the point f assigns to the segment's position
Recontrolled(path, f) ==
    [c \in 1..Len(path) |->
        [j \in 1..Len(path[c]) |->
            IF path[c][j].type \in {"MOVE_TO", "LINE_TO"}
            THEN [path[c][j] EXCEPT !.control = VectorPoint(f[SegmentsBefore(path, c) + j])]
            ELSE path[c][j]]]

\* C12: two GlyphPaths that differ only in the control points of their
\* MoveTo and LineTo segments are rendered to the same text.
C12_RenderIgnoresUnusedControl ==
    (pc = "done" /\ exit_code = 0) =>
        \A f \in [1..Len(Flatten(glyph_path)) -> Points] :
            << SuccessHeader >> \o PrintGlyphPath(Recontrolled(glyph_path, f)) = out

C12_Witness ==
    /\ pc = "done"
    /\ exit_code = 0
    /\ Len(glyph_path) = 2
    /\ Len(glyph_path[1]) = 2
    /\ glyph_path[1][2].type = "LINE_TO"
    /\ Recontrolled(glyph_path, [i \in 1..Len(Flatten(glyph_path)) |-> <<100, -7>>]) # glyph_path
    /\ Len(out) = 7

\* text s right-aligned in a field of w characters
RECURSIVE RightAligned(_, _)
RightAligned(s, w) == IF Len(s) >= w THEN s ELSE RightAligned(" " \o s, w)

Coord(n) == RightAligned(ToString(n), 5)

\* the line section 4.3 prescribes for a segment
ExpectedSegmentText(g) ==
    IF g.type = "CONIC_TO"
    THEN "      QuadTo (" \o Coord(g.control.x) \o ", " \o Coord(g.control.y)
             \o ") (" \o Coord(g.to.x) \o ", " \o Coord(g.to.y) \o ")"
    ELSE "      " \o (IF g.type = "MOVE_TO" THEN "MoveTo" ELSE "LineTo")
             \o " (" \o Coord(g.to.x) \o ", " \o Coord(g.to.y) \o ")"

\* index in out of the header line of the c-th contour
HeaderLine(c) == 2 + c + SegmentsBefore(glyph_path, c)

\* the square of section 8: moveTo(0,0) and four lineTo calls
SquarePath ==
    LineToPath(LineToPath(LineToPath(LineToPath(
        MoveToPath(<< >>, <<0, 0>>), <<100, 0>>), <<100, 100>>), <<0, 100>>), <<0, 0>>)

\* C14: the renderer writes the contours in stored order, each introduced by
\* its 1-based index, then one line per segment in stored order labelled by
\* kind (QuadTo: control point, then end point); the square of section 8
\* renders as one contour with five segment lines in callback order.
C14_RenderLayout ==
    /\ (pc = "done" /\ exit_code = 0) =>
          /\ Len(out) = 2 + Len(glyph_path) + Len(Flatten(glyph_path))
          /\ out[2] = "// Extracted Glyph Path:"
          /\ \A c \in 1..Len(glyph_path) :
                /\ out[HeaderLine(c)] = "   Contour #" \o RightAligned(ToString(c), 2)
                /\ \A j \in 1..Len(glyph_path[c]) :
                      out[HeaderLine(c) + j] = ExpectedSegmentText(glyph_path[c][j])
    /\ PrintGlyphPath(SquarePath) =
          << "// Extracted Glyph Path:",
             "   Contour # 1",
             "      MoveTo (    0,     0)",
             "      LineTo (  100,     0)",
             "      LineTo (  100,   100)",
             "      LineTo (    0,   100)",
             "      LineTo (    0,     0)" >>

C14_Witness ==
    /\ pc = "done"
    /\ exit_code = 0
    /\ Len(glyph_path) = 2
    /\ Len(glyph_path[1]) = 2
    /\ Len(glyph_path[2]) = 2
    /\ glyph_path[1][2].type = "CONIC_TO"
    /\ glyph_path[2][2].type = "LINE_TO"
    /\ out[3] = "   Contour # 1"
    /\ out[5] = "      QuadTo (  100,    -7) (    0,     0)"
    /\ out[6] = "   Contour # 2"
    /\ out[8] = "      LineTo (  100,    -7)"

\* a step in which the walker delivered one more callback
CallbackStep == Len(events') = Len(events) + 1

DeliveredKind == events'[Len(events')].kind

\* C15: LineToFunc and ConicToFunc on an accumulator with a contour append
\* one segment to the last contour and change nothing else; MoveToFunc adds
\* one contour at the end and leaves every existing contour unchanged.
C15_AppendOnly ==
    [][ CallbackStep =>
          LET n == Len(glyph_path) IN
          /\ (DeliveredKind \in {"line_to", "conic_to"} /\ n >= 1) =>
                /\ Len(glyph_path') = n
                /\ \A c \in 1..(n - 1) : glyph_path'[c] = glyph_path[c]
                /\ Len(glyph_path'[n]) = Len(glyph_path[n]) + 1
                /\ SubSeq(glyph_path'[n], 1, Len(glyph_path[n])) = glyph_path[n]
          /\ DeliveredKind = "move_to" =>
                /\ Len(glyph_path') = n + 1
                /\ \A c \in 1..n : glyph_path'[c] = glyph_path[c] ]_vars

C15_Witness ==
    /\ Len(events) = 4
    /\ LastEvent.kind = "conic_to"
    /\ events[3].kind = "move_to"
    /\ Len(glyph_path) = 2
    /\ Len(glyph_path[1]) = 2
    /\ Len(glyph_path[2]) = 2

\* C16: each of the four callbacks returns 0 for every argument and every
\* accumulator state, so the walk is never aborted by the core.
C16_CallbacksReturnContinue ==
    [][ CallbackStep => (ret' = 0 /\ pc' = "decompose") ]_vars

StageOrder == << "FT_Init_FreeType", "FT_New_Face", "FT_Get_Char_Index",
                 "FT_Load_Glyph", "FT_Outline_Decompose" >>

Releases == {"FT_Done_Face", "FT_Done_FreeType"}

\* the stage calls made so far, without the releases
StageCalls == SelectSeq(calls, LAMBDA fn : fn \notin Releases)

\* the diagnostic of the first stage that failed, from what the stages returned
FirstFailure ==
    IF argc # 3 THEN "Usage"
    ELSE IF results["init"] # FT_Err_Ok THEN "InitFreeType"
    ELSE IF results["new_face"] = FT_Err_Unknown_File_Format THEN "UnknownFileFormat"
    ELSE IF results["new_face"] # FT_Err_Ok THEN "OpenFont"
    ELSE IF glyph_index = 0 THEN "GlyphNotFound"
    ELSE IF results["load_glyph"] # FT_Err_Ok THEN "LoadGlyph"
    ELSE IF format # "outline" THEN "NotOutline"
    ELSE "Decompose"

\* number of stage calls made when the run stops with diagnostic d
StagesReached(d) ==
    CASE d = "Usage" -> 0
      [] d = "InitFreeType" -> 1
      [] d \in {"UnknownFileFormat", "OpenFont"} -> 2
      [] d = "GlyphNotFound" -> 3
      [] d \in {"LoadGlyph", "NotOutline"} -> 4
      [] d = "Decompose" -> 5

\* C17: a failing run writes exactly one diagnostic, nothing to standard
\* output, and stops at the first failing stage; a successful run writes no
\* diagnostic and writes the path only after the decomposition succeeded.
C17_OneDiagnosticFirstFailure ==
    /\ (pc = "done" /\ exit_code # 0) =>
          /\ err = << FirstFailure >>
          /\ out = << >>
          /\ StageCalls = SubSeq(StageOrder, 1, StagesReached(FirstFailure))
    /\ (pc = "done" /\ exit_code = 0) => (err = << >> /\ StageCalls = StageOrder)
    /\ pc # "done" => (err = << >> /\ out = << >>)
    /\ out # << >> => (results["decompose"] = FT_Err_Ok /\ exit_code = 0)

C17_Witness ==
    /\ pc = "done"
    /\ exit_code = 1
    /\ err = << "LoadGlyph" >>
    /\ StageCalls = SubSeq(StageOrder, 1, 4)
    /\ out = << >>

Count(fn) == Cardinality({i \in DOMAIN calls : calls[i] = fn})

\* C18: a handle is released only if it was acquired, at most once, and no
\* FreeType call is made on a handle after its release.
C18_HandleLifecycle ==
    /\ Count("FT_Done_FreeType") <= 1
    /\ Count("FT_Done_Face") <= 1
    /\ Called("FT_Done_FreeType") => results["init"] = FT_Err_Ok
    /\ Called("FT_Done_Face") => results["new_face"] = FT_Err_Ok
    /\ Called("FT_Done_FreeType") =>
          \A i \in DOMAIN calls :
              calls[i] # "FT_Done_FreeType" => i < Pos("FT_Done_FreeType")
    /\ Called("FT_Done_Face") =>
          \A i \in DOMAIN calls :
              calls[i] \in {"FT_Get_Char_Index", "FT_Load_Glyph", "FT_Outline_Decompose"}
                  => i < Pos("FT_Done_Face")
    /\ library = "done" <=> Called("FT_Done_FreeType")
    /\ face = "done" <=> Called("FT_Done_Face")

C18_Witness ==
    /\ pc = "done"
    /\ results["new_face"] = FT_Err_Cannot_Open_Resource
    /\ calls = << "FT_Init_FreeType", "FT_New_Face", "FT_Done_FreeType" >>
    /\ face = "none"
    /\ library = "done"

TypeOK ==
    /\ pc \in {"start", "init", "new_face", "char_index", "load_glyph",
               "check_format", "decompose", "done"}
    /\ exit_code \in {NoExit, 0, 1, SigSegv}
    /\ library \in {"none", "open", "done"}
    /\ face \in {"none", "open", "done"}
====
